---- MODULE Spec2Model ----
(***************************************************************************)
(* The Sovereign Executive Agent (agent.py, tools.py): one agent object,   *)
(* its construction, and runs of its eight-stage workflow.                  *)
(*                                                                         *)
(* Python dicts are functions from keys to values, lists are sequences,    *)
(* None is the string "None".  The emoji and box-drawing glyphs of the     *)
(* literal log lines are left out of the strings; the long literal texts   *)
(* (the static reasoning, the executive message) are kept by their first   *)
(* and last words.                                                         *)
(*                                                                         *)
(* A stage is instantaneous with respect to the wall clock: time passes    *)
(* (Tick) between stages, and every datetime.now() of one stage reads the  *)
(* same instant.                                                           *)
(***************************************************************************)
EXTENDS Integers, Sequences, FiniteSets, TLC

VARIABLES
    pc,          \* where the program is: no_agent, init_failed, ready, a node of the graph, invoke, END, raised
    self,        \* the agent object: use_llm, model, mission_context, lessons_db
    state,       \* the run record threaded through the graph
    results,     \* the records returned by the completed calls of run, in order
    now,         \* the wall clock, in ticks
    hash_seed,   \* the process's string-hash randomisation
    env,         \* what the environment did: the constructor's argument, the backend's answers, the context file, the clock minutes of stages 5 and 6
    app          \* the page of app.py: its session's run_count, where its script is, and what it shows

vars == <<pc, self, state, results, now, hash_seed, env, app>>

----------------------------------------------------------------------------
(* Bounds of the model *)

\* runs of one agent object
MaxRuns == 2
\* the last tick of the wall clock
MaxClock == 3
\* ticks of the wall clock in one minute
TicksPerMinute == 2
\* presses of the launch button between two resets of the page
MaxTriggers == 2

\* incident texts given to run
Incidents == {"CEO Flight to Tokyo cancelled at 23:00", "X"}
\* texts the local model may answer with
LlmTexts == {"Take KIX, then the Nozomi to Tokyo."}
\* the process's hash randomisation seeds
HashSeeds == {0, 1}

None == "None"
EmptyDict == <<>>
EmptyList == <<>>

----------------------------------------------------------------------------
(* Python helpers *)

\* dict.get(key, default)
Get(d, key, default) == IF key \in DOMAIN d THEN d[key] ELSE default

\* zero-padded decimal, f"{n:0{width}d}"
RECURSIVE ZeroPad(_, _)
ZeroPad(s, width) == IF Len(s) >= width THEN s ELSE ZeroPad("0" \o s, width)
Fmt(n, width) == ZeroPad(ToString(n), width)

\* the built-in hash of a string, which the process randomises by its seed:
\* an arbitrary function of the seed and the text
StrCode(s) ==
    CASE s = "flight" -> 8923
      [] s = "train" -> 65537
      [] s = "CORP_TOKEN_50542980" -> 1201
      [] s = "CORP_TOKEN_4492906B" -> 2203
      [] s = "CORP_TOKEN_6AA7A6BA" -> 3307
      [] s = "CORP_TOKEN_64A9E1D9" -> 4409
      [] OTHER -> 1009 * Len(s) + 7
PyHash(seed, s) == StrCode(s) * 31 + seed * 2477

\* datetime.now() at tick t, as strftime and isoformat give it
Minute(t) == t \div TicksPerMinute
StampYmd(t) == "20261103"
StampHM(t) ==
    CASE Minute(t) = 0 -> "0859"
      [] Minute(t) = 1 -> "0900"
      [] Minute(t) = 2 -> "0901"
      [] OTHER -> "0902"
StampYmdHM(t) == StampYmd(t) \o StampHM(t)
IsoFormat(t) == "2026-11-03T" \o StampHM(t) \o ":tick" \o ToString(t)

\* hashlib.md5(s).hexdigest()[:8].upper() of the minute stamps
Md5Hex8Upper(s) ==
    CASE s = "202611030859" -> "50542980"
      [] s = "202611030900" -> "4492906B"
      [] s = "202611030901" -> "6AA7A6BA"
      [] OTHER -> "64A9E1D9"

\* hashlib.sha256(s).hexdigest()[:12] of the texts the agent hashes
Sha256Hex12(s) ==
    CASE s = "CEO Global Tech" -> "23d4ff49fd10"
      [] OTHER -> "000000000000"

----------------------------------------------------------------------------
(* tools.py: PrivacyShield *)

\* a faulty hash_pii: it digests the time stamp, as the token does
hash_pii_of_time(data) == "SHA256:" \o Md5Hex8Upper(StampYmdHM(now)) \o "..."

hash_pii(data) == "SHA256:" \o Sha256Hex12(data) \o "..."

\* a faulty token: it is made from the day, not from the minute
create_anonymous_token_of_day(t) == "CORP_TOKEN_" \o Md5Hex8Upper(StampYmd(t))

create_anonymous_token(t) == "CORP_TOKEN_" \o Md5Hex8Upper(StampYmdHM(t))

\* the keys a request can carry, in the order the caller writes them
RequestKeys == <<"passenger", "mission", "origin", "destination">>
RECURSIVE JoinItems(_, _)
JoinItems(request, keys) ==
    IF keys = <<>> THEN ""
    ELSE LET k == Head(keys)
             item == "'" \o k \o "': '" \o request[k] \o "'"
         IN  IF Tail(keys) = <<>> THEN item
             ELSE item \o ", " \o JoinItems(request, Tail(keys))
\* str(request): the dict's repr, keys in insertion order
PyStr(request) ==
    "{" \o JoinItems(request, SelectSeq(RequestKeys, LAMBDA k : k \in DOMAIN request)) \o "}"

\* a shield that lets the passenger through as the passenger type
redact_request_keeps_passenger(request, seed, t) ==
    LET redacted == [request_id |-> "REQ-" \o Fmt(PyHash(seed, PyStr(request)) % 10000, 4) \o "-X",
                     passenger_type |-> Get(request, "passenger", "VIP_PREMIUM"),
                     identity_status |-> "HASHED_OAUTH2",
                     pii_redaction |-> "ACTIVE",
                     timestamp |-> IsoFormat(t)]
        with_origin == IF "origin" \in DOMAIN request
                       THEN [origin_code |-> request["origin"]] @@ redacted
                       ELSE redacted
    IN  IF "destination" \in DOMAIN request
        THEN [destination_code |-> request["destination"]] @@ with_origin
        ELSE with_origin

redact_request(request, seed, t) ==
    LET redacted == [request_id |-> "REQ-" \o Fmt(PyHash(seed, PyStr(request)) % 10000, 4) \o "-X",
                     passenger_type |-> "VIP_PREMIUM",
                     identity_status |-> "HASHED_OAUTH2",
                     pii_redaction |-> "ACTIVE",
                     timestamp |-> IsoFormat(t)]
        with_origin == IF "origin" \in DOMAIN request
                       THEN [origin_code |-> request["origin"]] @@ redacted
                       ELSE redacted
    IN  IF "destination" \in DOMAIN request
        THEN [destination_code |-> request["destination"]] @@ with_origin
        ELSE with_origin

\* json.dumps(anonymized, indent=2)[:100]: the cut falls inside the value of
\* identity_status, after request_id and passenger_type
JsonDumpsCut100(anonymized) ==
    "{ request_id: " \o anonymized.request_id
        \o ", passenger_type: " \o anonymized.passenger_type
        \o ", identity_status: HASHED_OAUT"

----------------------------------------------------------------------------
(* tools.py: the booking stubs *)

book_flight(flight, corporate_token, seed, t) ==
    [status |-> "CONFIRMED",
     pnr |-> "PNR_" \o Fmt(PyHash(seed, "flight") % 10000, 4) \o "X",
     flight |-> Get(flight, "flight", "UNKNOWN"),
     payment |-> [method |-> "CORPORATE_TOKEN",
                  token_id |-> corporate_token,
                  receipt |-> "RCP-" \o StampYmd(t) \o "-"
                                  \o Fmt(PyHash(seed, corporate_token) % 1000, 3)],
     privacy |-> "SOVEREIGN_COMPLIANT"]

book_train(train, corporate_token, seed) ==
    [status |-> "CONFIRMED",
     reservation |-> "JR-" \o Fmt(PyHash(seed, "train") % 100000, 5),
     train |-> Get(train, "train", "UNKNOWN"),
     car |-> "Green Car - Seat 5A",
     payment |-> [method |-> "CORPORATE_TOKEN", token_id |-> corporate_token],
     privacy |-> "SOVEREIGN_COMPLIANT"]

dispatch_driver(location, pickup_time, secure_channel, t) ==
    [status |-> "DISPATCHED",
     location |-> location,
     pickup_time |-> pickup_time,
     vehicle |-> "Executive Sedan",
     driver_id |-> IF secure_channel THEN "DRV_CLEARED_0042" ELSE "DRV_0042",
     communication |-> IF secure_channel THEN "ENCRYPTED_CHANNEL" ELSE "STANDARD",
     confirmation |-> "GND-" \o StampHM(t) \o "-ALPHA"]

----------------------------------------------------------------------------
(* tools.py: ContinuousLearningModule *)

\* the incident-type labels of the model and the outcomes a caller passes
IncidentTypes ==
    {"M&A Travel Disruption",
     "M&A",
     "m&a deal",
     "Corporate MERGER review",
     "merger talks",
     "Weather delay"}
Outcomes == {"SUCCESS", "success", "FAILURE"}

\* the characters of a label
Chars(s) ==
    CASE s = "M&A Travel Disruption" ->
         <<"M", "&", "A", " ", "T", "r", "a", "v", "e", "l", " ", "D", "i",
           "s", "r", "u", "p", "t", "i", "o", "n">>
      [] s = "M&A" ->
         <<"M", "&", "A">>
      [] s = "m&a deal" ->
         <<"m", "&", "a", " ", "d", "e", "a", "l">>
      [] s = "Corporate MERGER review" ->
         <<"C", "o", "r", "p", "o", "r", "a", "t", "e", " ", "M", "E", "R",
           "G", "E", "R", " ", "r", "e", "v", "i", "e", "w">>
      [] s = "merger talks" ->
         <<"m", "e", "r", "g", "e", "r", " ", "t", "a", "l", "k", "s">>
      [] s = "Weather delay" ->
         <<"W", "e", "a", "t", "h", "e", "r", " ", "d", "e", "l", "a",
           "y">>

\* str.lower(), character by character
LowerChar(c) ==
    CASE c = "A" -> "a"
      [] c = "C" -> "c"
      [] c = "D" -> "d"
      [] c = "E" -> "e"
      [] c = "G" -> "g"
      [] c = "M" -> "m"
      [] c = "R" -> "r"
      [] c = "T" -> "t"
      [] c = "W" -> "w"
      [] OTHER -> c

Lower(chars) == [i \in 1..Len(chars) |-> LowerChar(chars[i])]

\* pattern in chars: some slice of chars is the pattern
IsSubstring(pattern, chars) ==
    \E i \in 1..(Len(chars) - Len(pattern) + 1) :
        SubSeq(chars, i, i + Len(pattern) - 1) = pattern

\* "M&A" in incident_type
ContainsMA(incident_type) ==
    IsSubstring(<<"M", "&", "A">>, Chars(incident_type))

\* a faulty test: "merger" in incident_type, without lower()
ContainsMergerLower_cased(incident_type) ==
    IsSubstring(<<"m", "e", "r", "g", "e", "r">>, Chars(incident_type))

\* "merger" in incident_type.lower()
ContainsMergerLower(incident_type) ==
    IsSubstring(<<"m", "e", "r", "g", "e", "r">>, Lower(Chars(incident_type)))

_extract_learnings(incident_type, solution, outcome) ==
    IF ContainsMA(incident_type) \/ ContainsMergerLower(incident_type)
    THEN [priority_override |-> "TIME > COMFORT",
          intermodal_viable |-> TRUE,
          osaka_bypass_success |-> (outcome = "SUCCESS"),
          privacy_protocol |-> "SOVEREIGN_VALIDATED"]
    ELSE [general_learning |-> "Protocol executed successfully"]

\* the lesson record_incident builds, appends to lessons_db and returns
record_incident(incident_type, solution, outcome, t) ==
    [timestamp |-> IsoFormat(t),
     incident_type |-> incident_type,
     solution_applied |-> solution,
     outcome |-> outcome,
     learned_parameters |-> _extract_learnings(incident_type, solution, outcome)]

----------------------------------------------------------------------------
(* agent.py: the run record and the workflow graph *)

\* AgentState: the fields of the run record
AgentState ==
    {"incident", "timestamp", "stage_logs", "context", "causal_analysis",
     "strategic_plan", "privacy_actions", "bookings", "final_solution",
     "learning_record"}

\* a faulty run: the lists of the record are objects shared by all calls
initial_state_shared_lists(incident) ==
    [incident |-> incident,
     timestamp |-> "",
     stage_logs |-> Get(state, "stage_logs", EmptyList),
     context |-> EmptyDict,
     causal_analysis |-> EmptyDict,
     strategic_plan |-> EmptyDict,
     privacy_actions |-> Get(state, "privacy_actions", EmptyList),
     bookings |-> Get(state, "bookings", EmptyList),
     final_solution |-> EmptyDict,
     learning_record |-> EmptyDict]

\* the record run starts the graph with
initial_state(incident) ==
    [incident |-> incident,
     timestamp |-> "",
     stage_logs |-> EmptyList,
     context |-> EmptyDict,
     causal_analysis |-> EmptyDict,
     strategic_plan |-> EmptyDict,
     privacy_actions |-> EmptyList,
     bookings |-> EmptyList,
     final_solution |-> EmptyDict,
     learning_record |-> EmptyDict]

\* the graph merges a node's return value into the record: the keys it
\* returns are overwritten, the others are kept
Merge(st, update) == update @@ st

\* a faulty graph: the edge out of stage 2 bypasses stage 3
Edge_skips_causal(node) ==
    CASE node = "stage_1_edge_detection" -> "stage_2_contextual_analysis"
      [] node = "stage_2_contextual_analysis" -> "stage_4_strategic_reasoning"
      [] node = "stage_3_causal_evaluation" -> "stage_4_strategic_reasoning"
      [] node = "stage_4_strategic_reasoning" -> "stage_5_privacy_shield"
      [] node = "stage_5_privacy_shield" -> "stage_6_agentic_execution"
      [] node = "stage_6_agentic_execution" -> "stage_7_human_notification"
      [] node = "stage_7_human_notification" -> "stage_8_continuous_learning"
      [] node = "stage_8_continuous_learning" -> "END"

\* a faulty graph: the entry point is the second node
EntryPoint_second_node == "stage_2_contextual_analysis"

\* _build_graph: the entry point and the edge leaving each node
EntryPoint == "stage_1_edge_detection"
Edge(node) ==
    CASE node = "stage_1_edge_detection" -> "stage_2_contextual_analysis"
      [] node = "stage_2_contextual_analysis" -> "stage_3_causal_evaluation"
      [] node = "stage_3_causal_evaluation" -> "stage_4_strategic_reasoning"
      [] node = "stage_4_strategic_reasoning" -> "stage_5_privacy_shield"
      [] node = "stage_5_privacy_shield" -> "stage_6_agentic_execution"
      [] node = "stage_6_agentic_execution" -> "stage_7_human_notification"
      [] node = "stage_7_human_notification" -> "stage_8_continuous_learning"
      [] node = "stage_8_continuous_learning" -> "END"

\* a faulty default context: another objective
_default_context_other_objective ==
    [mission_name |-> "Operation Sakura",
     objective |-> "Board Meeting",
     deadline |-> "09:00 AM Tokyo Time",
     risk |-> "CRITICAL"]

_default_context ==
    [mission_name |-> "Operation Sakura",
     objective |-> "M&A Signing",
     deadline |-> "09:00 AM Tokyo Time",
     risk |-> "CRITICAL"]

_simulated_reasoning ==
    "REASONING CHAIN: 1. Direct Tokyo access blocked ... RECOMMENDATION: Execute Osaka Bypass Protocol immediately."

----------------------------------------------------------------------------
(* agent.py: the eight stages, each the partial update it returns *)

\* a faulty stage 1: it also returns the incident, cut to its first word
stage_1_edge_detection_cuts_incident(st) ==
    LET log == [stage |-> 1,
                name |-> "EDGE AI - Local Detection",
                timestamp |-> "23:00:00",
                concept |-> "Edge AI",
                actions |-> <<"Alert intercepted on secure executive device",
                              "Processing locally - NO cloud transmission",
                              "Latency: <50ms (edge processing)",
                              "INCIDENT: " \o st["incident"]>>,
                key_insight |-> "Intelligence at the edge: data stays where it's generated."]
    IN  [stage_logs |-> st["stage_logs"] \o <<log>>,
         timestamp |-> "23:00:00",
         incident |-> IF st["incident"] = "X" THEN "X" ELSE "CEO"]

stage_1_edge_detection(st) ==
    LET log == [stage |-> 1,
                name |-> "EDGE AI - Local Detection",
                timestamp |-> "23:00:00",
                concept |-> "Edge AI",
                actions |-> <<"Alert intercepted on secure executive device",
                              "Processing locally - NO cloud transmission",
                              "Latency: <50ms (edge processing)",
                              "INCIDENT: " \o st["incident"]>>,
                key_insight |-> "Intelligence at the edge: data stays where it's generated."]
    IN  [stage_logs |-> st["stage_logs"] \o <<log>>,
         timestamp |-> "23:00:00"]

\* a faulty context_summary: the deadline is taken from the mapping too
context_summary_reads_deadline(mission_context) ==
    [mission |-> Get(mission_context, "mission_name", "Operation Sakura"),
     objective |-> Get(mission_context, "objective", "M&A Signing"),
     classification |-> Get(mission_context, "classification", "SOVEREIGN"),
     deadline |-> Get(mission_context, "deadline", "09:00 AM Tokyo Time"),
     negotiation_history |-> "6 months of preparation",
     cultural_factor |-> "Physical presence MANDATORY for Japanese business protocol"]

\* stage 2's context_summary; mission_context is the mapping the constructor loaded
context_summary(mission_context) ==
    [mission |-> Get(mission_context, "mission_name", "Operation Sakura"),
     objective |-> Get(mission_context, "objective", "M&A Signing"),
     classification |-> Get(mission_context, "classification", "SOVEREIGN"),
     deadline |-> "09:00 AM Tokyo Time",
     negotiation_history |-> "6 months of preparation",
     cultural_factor |-> "Physical presence MANDATORY for Japanese business protocol"]

stage_2_contextual_analysis(st, mission_context) ==
    LET log == [stage |-> 2,
                name |-> "CONTEXTUAL AI - Mission Understanding",
                timestamp |-> "23:01:00",
                concept |-> "Contextual AI",
                actions |-> <<"Accessing encrypted calendar: 'Operation Sakura'",
                              "Mission: " \o context_summary(mission_context).objective,
                              "Deadline: " \o context_summary(mission_context).deadline,
                              "Context loaded: 6 months of M&A negotiations at stake",
                              "Cultural Intel: Video conference NOT acceptable for signing">>,
                key_insight |-> "Without context, data is just noise. The AI understands THIS meeting matters."]
    IN  [stage_logs |-> st["stage_logs"] \o <<log>>,
         context |-> context_summary(mission_context)]

\* stage 3's causal_chain
causal_chain ==
            [trigger |-> "Flight cancellation",
             chain |-> <<[cause |-> "CEO misses flight", effect |-> "Cannot reach Tokyo by 09:00"],
                         [cause |-> "Physical absence at signing", effect |-> "Loss of face (mentsu) for partner"],
                         [cause |-> "Cultural breach", effect |-> "Trust breakdown with Tanaka-san"],
                         [cause |-> "Trust breakdown", effect |-> "Deal termination after 6 months"]>>,
             alternative_evaluated |->
                 [option |-> "Video conference",
                  viable |-> FALSE,
                  reason |-> "Japanese business culture requires physical presence for trust validation"],
             severity |-> "CRITICAL - Direct causal link to deal failure"]

\* stage 3's log entry
stage_3_log ==
               [stage |-> 3,
                name |-> "CAUSAL AI - Consequence Mapping",
                timestamp |-> "23:02:00",
                concept |-> "Causal AI",
                actions |-> <<"Building causal chain analysis...",
                              "Absence -> Loss of Face -> Trust Breach -> Deal Failure",
                              "Video conference evaluated: REJECTED (cultural mismatch)",
                              "SEVERITY: CRITICAL - 6-month deal at risk",
                              "Causal insight: Correlation != Causation. Understanding WHY matters.">>,
                key_insight |-> "The AI doesn't just predict outcomes - it understands mechanisms."]

\* a faulty stage 3: it returns its own entry as the whole log
stage_3_causal_evaluation_resets_logs(st) ==
    [stage_logs |-> <<stage_3_log>>,
     causal_analysis |-> causal_chain]

stage_3_causal_evaluation(st) ==
    [stage_logs |-> st["stage_logs"] \o <<stage_3_log>>,
     causal_analysis |-> causal_chain]

\* whether stage 4 takes the model branch: self.use_llm and self.model
UsesModel(agent) == agent.use_llm /\ agent.model # None

\* stage 4 from reasoning_output on: the text is the model's answer or
\* _simulated_reasoning()
stage_4_strategic_reasoning(st, reasoning_output) ==
    LET strategic_plan ==
            [primary_route |->
                 [name |-> "Osaka Bypass Protocol",
                  segments |-> <<[mode |-> "Flight", route |-> "CDG -> KIX (Osaka)", duration |-> "12h 25m"],
                                 [mode |-> "Shinkansen", route |-> "Osaka -> Tokyo", duration |-> "2h 15m"],
                                 [mode |-> "Ground", route |-> "Tokyo Station -> Venue", duration |-> "25m"]>>,
                  total_time |-> "15h 05m",
                  arrival_estimate |-> "08:15 AM Tokyo Time",
                  buffer |-> "45 minutes before deadline"],
             reasoning_trace |-> reasoning_output,
             confidence |-> "94%"]
        log == [stage |-> 4,
                name |-> "TRUE REASONING - Strategic Planning",
                timestamp |-> "23:03:00",
                concept |-> "True Reasoning",
                actions |-> <<"Evaluating all possible routes...",
                              "Direct Tokyo (NRT/HND): No availability before noon",
                              "Osaka Bypass (KIX + Shinkansen): Arrival 08:15 AM",
                              "Nagoya Route (NGO + Shinkansen): Tighter margin",
                              "SELECTED: Osaka Bypass Protocol",
                              "ETA: 08:15 AM (45min buffer)",
                              "This is TRUE REASONING: solving a novel problem through logic, not patterns.">>,
                llm_reasoning |-> reasoning_output,
                key_insight |-> "Real reasoning = solving problems never seen before through deduction."]
    IN  [stage_logs |-> st["stage_logs"] \o <<log>>,
         strategic_plan |-> strategic_plan]

\* a faulty privacy_actions list: the mission entry comes before the identity entry
privacy_actions_mission_first(corporate_token) ==
    <<[action |-> "MISSION_SHIELD",
       original |-> "Operation Sakura - M&A Signing",
       transformed |-> "[CLASSIFIED]",
       status |-> "PROTECTED"],
      [action |-> "PII_REDACTION",
       original |-> "CEO Global Tech",
       transformed |-> hash_pii("CEO Global Tech"),
       status |-> "PROTECTED"],
      [action |-> "TOKEN_GENERATION",
       purpose |-> "Anonymous payment authorization",
       token |-> corporate_token,
       status |-> "ACTIVE"]>>

\* stage 5's privacy_actions list
privacy_actions(corporate_token) ==
    <<[action |-> "PII_REDACTION",
       original |-> "CEO Global Tech",
       transformed |-> hash_pii("CEO Global Tech"),
       status |-> "PROTECTED"],
      [action |-> "MISSION_SHIELD",
       original |-> "Operation Sakura - M&A Signing",
       transformed |-> "[CLASSIFIED]",
       status |-> "PROTECTED"],
      [action |-> "TOKEN_GENERATION",
       purpose |-> "Anonymous payment authorization",
       token |-> corporate_token,
       status |-> "ACTIVE"]>>

stage_5_privacy_shield(st, seed, t) ==
    LET original_request ==
            [passenger |-> "CEO Global Tech",
             mission |-> "Operation Sakura",
             origin |-> "CDG",
             destination |-> "KIX"]
        anonymized == redact_request(original_request, seed, t)
        corporate_token == create_anonymous_token(t)
        log == [stage |-> 5,
                name |-> "SOVEREIGN AI + PRIVACY SHIELD",
                timestamp |-> "23:04:00",
                concept |-> "Sovereign AI & Privacy Preserving Techniques",
                actions |-> <<"PRIVACY SHIELD ACTIVATED",
                              "Identity: CEO Global Tech -> " \o privacy_actions(corporate_token)[1].transformed,
                              "Mission: [REDACTED FROM EXTERNAL QUERIES]",
                              "Payment: Corporate Token " \o corporate_token,
                              "EXTERNAL QUERY (Anonymized):",
                              "Endpoint: flight-api.global/availability",
                              "Payload: " \o JsonDumpsCut100(anonymized) \o "...",
                              "Flight availability confirmed WITHOUT identity disclosure",
                              "All PII remains within SOVEREIGN PERIMETER">>,
                key_insight |-> "Privacy is not an option - it's an architecture decision."]
    IN  [stage_logs |-> st["stage_logs"] \o <<log>>,
         privacy_actions |-> privacy_actions(corporate_token)]

\* a faulty bookings list: the ground dispatch is left out
bookings_without_ground(flight_booking, train_booking, ground_dispatch) ==
    <<[type |-> "FLIGHT", details |-> flight_booking, action |-> "BOOKED_AUTONOMOUSLY"],
      [type |-> "TRAIN", details |-> train_booking, action |-> "BOOKED_AUTONOMOUSLY"]>>

\* stage 6's bookings list
bookings(flight_booking, train_booking, ground_dispatch) ==
    <<[type |-> "FLIGHT", details |-> flight_booking, action |-> "BOOKED_AUTONOMOUSLY"],
      [type |-> "TRAIN", details |-> train_booking, action |-> "BOOKED_AUTONOMOUSLY"],
      [type |-> "GROUND_TRANSPORT", details |-> ground_dispatch, action |-> "DISPATCHED_AUTONOMOUSLY"]>>

stage_6_agentic_execution(st, seed, t) ==
    LET corporate_token == create_anonymous_token(t)
        flight_booking ==
            book_flight([flight |-> "JL416", route |-> "CDG-KIX", departure |-> "01:20"],
                        corporate_token, seed, t)
        train_booking ==
            book_train([train |-> "Nozomi 64", departure |-> "06:00", route |-> "Osaka-Tokyo"],
                       corporate_token, seed)
        ground_dispatch == dispatch_driver("Tokyo Station", "08:15", TRUE, t)
        log == [stage |-> 6,
                name |-> "AGENTIC AI - Autonomous Execution",
                timestamp |-> "23:05:00",
                concept |-> "Agentic AI",
                actions |-> <<"AUTONOMOUS EXECUTION MODE ACTIVATED",
                              "The AI acts within its mandate - no unnecessary questions.",
                              "",
                              "FLIGHT BOOKED: JL416 CDG->KIX",
                              "PNR: " \o flight_booking.pnr,
                              "Payment: " \o flight_booking.payment.method,
                              "",
                              "SHINKANSEN BOOKED: Nozomi 64",
                              "Reservation: " \o train_booking.reservation,
                              "Seat: " \o train_booking.car,
                              "",
                              "GROUND TRANSPORT: Dispatched",
                              "Pickup: Tokyo Station @ 08:15",
                              "Channel: " \o ground_dispatch.communication,
                              "",
                              "ALL RESOURCES SECURED - No human intervention required">>,
                key_insight |-> "Agentic AI doesn't ask unnecessary questions. It solves."]
    IN  [stage_logs |-> st["stage_logs"] \o <<log>>,
         bookings |-> bookings(flight_booking, train_booking, ground_dispatch)]

\* a faulty final_solution: it counts the log entries, not the bookings
final_solution_counts_logs(st) ==
    [status |-> "RECOVERY_COMPLETE",
     protocol |-> "Osaka Bypass",
     route_summary |-> "CDG - KIX - Tokyo - Venue",
     timeline |-> [departure |-> "01:20 (CDG)",
                   osaka_arrival |-> "19:45 local",
                   shinkansen |-> "Nozomi 64 @ 06:00",
                   tokyo_arrival |-> "08:15",
                   venue_arrival |-> "08:40 (estimated)"],
     buffer_time |-> "20 minutes before signing",
     privacy_status |-> "SOVEREIGN - All PII protected",
     bookings_secured |-> Len(Get(st, "stage_logs", EmptyList)),
     confidence |-> "96%"]

\* a faulty final_solution: its status depends on the incident text
final_solution_by_incident(st) ==
    [status |-> IF st["incident"] = "X" THEN "NO_ACTION" ELSE "RECOVERY_COMPLETE",
     protocol |-> "Osaka Bypass",
     route_summary |-> "CDG - KIX - Tokyo - Venue",
     timeline |-> [departure |-> "01:20 (CDG)",
                   osaka_arrival |-> "19:45 local",
                   shinkansen |-> "Nozomi 64 @ 06:00",
                   tokyo_arrival |-> "08:15",
                   venue_arrival |-> "08:40 (estimated)"],
     buffer_time |-> "20 minutes before signing",
     privacy_status |-> "SOVEREIGN - All PII protected",
     bookings_secured |-> Len(Get(st, "bookings", EmptyList)),
     confidence |-> "96%"]

\* stage 7's final_solution
final_solution(st) ==
    [status |-> "RECOVERY_COMPLETE",
     protocol |-> "Osaka Bypass",
     route_summary |-> "CDG - KIX - Tokyo - Venue",
     timeline |-> [departure |-> "01:20 (CDG)",
                   osaka_arrival |-> "19:45 local",
                   shinkansen |-> "Nozomi 64 @ 06:00",
                   tokyo_arrival |-> "08:15",
                   venue_arrival |-> "08:40 (estimated)"],
     buffer_time |-> "20 minutes before signing",
     privacy_status |-> "SOVEREIGN - All PII protected",
     bookings_secured |-> Len(Get(st, "bookings", EmptyList)),
     confidence |-> "96%"]

stage_7_human_notification(st) ==
    LET executive_message ==
            "SOVEREIGN EXECUTIVE AGENT - PRIORITY NOTIFICATION ... Boarding pass and reservations attached."
        log == [stage |-> 7,
                name |-> "HUMAN-AI COLLABORATION - Executive Briefing",
                timestamp |-> "23:06:00",
                concept |-> "Human-AI Collaboration",
                actions |-> <<"COMPOSING EXECUTIVE NOTIFICATION",
                              "Tone: Concise, confident, actionable",
                              "Content: Solution FIRST, then details",
                              "Attachments: Digital boarding pass, rail ticket",
                              "",
                              "NOTIFICATION SENT TO: Executive Secure Device",
                              "Channel: Encrypted Push Notification",
                              "Priority: HIGH",
                              "",
                              "Human remains in control, but unburdened by complexity">>,
                executive_message |-> executive_message,
                key_insight |-> "AI handles complexity so humans can focus on what matters."]
    IN  [stage_logs |-> st["stage_logs"] \o <<log>>,
         final_solution |-> final_solution(st)]

\* stage 8 from learning_record on: the lesson record_incident returned
stage_8_continuous_learning(st, learning_record) ==
    LET log == [stage |-> 8,
                name |-> "CONTINUOUS LEARNING - Knowledge Capture",
                timestamp |-> "Day +7",
                concept |-> "Continuous Learning",
                actions |-> <<"POST-INCIDENT ANALYSIS (After successful signing)",
                              "",
                              "LESSONS CAPTURED:",
                              "M&A missions: TIME priority > COMFORT priority",
                              "Osaka Bypass Protocol: VALIDATED for Tokyo disruptions",
                              "Privacy Shield: Zero PII leakage confirmed",
                              "Intermodal routing: Effective for East Asia",
                              "",
                              "PARAMETERS UPDATED:",
                              "travel_priority['M&A'] = 'TIME_CRITICAL'",
                              "backup_routes['Tokyo'].add('KIX_BYPASS')",
                              "confidence['intermodal'] += 0.05",
                              "",
                              "System is now BETTER PREPARED for similar incidents">>,
                learning_record |-> learning_record,
                key_insight |-> "Experience only has value if it's captured and applied."]
    IN  [stage_logs |-> st["stage_logs"] \o <<log>>,
         learning_record |-> learning_record]

----------------------------------------------------------------------------
(* agent.py: the constructor *)

\* what open('context.json') and json.load may find: no file, a file that
\* cannot be read or parsed, or a JSON value (a mapping or not)
ContextFiles ==
    {[kind |-> "absent"],
     [kind |-> "unreadable"],
     [kind |-> "json",
      value |-> [type |-> "dict",
                 items |-> [mission_name |-> "Operation Kiku",
                            objective |-> "JV Signing",
                            classification |-> "SECRET",
                            deadline |-> "10:00 AM Osaka Time"]]],
     [kind |-> "json",
      value |-> [type |-> "dict", items |-> [mission_name |-> "Operation Kiku"]]],
     [kind |-> "json", value |-> [type |-> "list", items |-> EmptyList]]}

\* what ChatOllama(...) does when it is called
ChatOllamaOutcomes == {"created", "raised"}

\* the constructor raises: only FileNotFoundError is caught around the load
InitRaises(context_file) == context_file.kind = "unreadable"

\* the mission context the constructor stores
LoadContext(context_file) ==
    IF context_file.kind = "absent"
    THEN [type |-> "dict", items |-> _default_context]
    ELSE context_file.value

\* a faulty constructor: the except branch does not clear use_llm
__init___keeps_use_llm(use_llm, chat_ollama, context_file) ==
    [use_llm |-> use_llm,
     model |-> IF use_llm /\ chat_ollama = "created" THEN "ChatOllama" ELSE None,
     mission_context |-> LoadContext(context_file),
     lessons_db |-> EmptyList]

\* a faulty constructor: it creates the model whatever use_llm says
__init___ignores_flag(use_llm, chat_ollama, context_file) ==
    [use_llm |-> chat_ollama = "created",
     model |-> IF chat_ollama = "created" THEN "ChatOllama" ELSE None,
     mission_context |-> LoadContext(context_file),
     lessons_db |-> EmptyList]

\* the agent object a constructor call that returns leaves behind
__init__(use_llm, chat_ollama, context_file) ==
    [use_llm |-> IF use_llm THEN chat_ollama = "created" ELSE FALSE,
     model |-> IF use_llm /\ chat_ollama = "created" THEN "ChatOllama" ELSE None,
     mission_context |-> LoadContext(context_file),
     lessons_db |-> EmptyList]

----------------------------------------------------------------------------
(* The state machine *)

Nodes ==
    {"stage_1_edge_detection", "stage_2_contextual_analysis",
     "stage_3_causal_evaluation", "stage_4_strategic_reasoning",
     "stage_5_privacy_shield", "stage_6_agentic_execution",
     "stage_7_human_notification", "stage_8_continuous_learning"}

NoAgent ==
    [use_llm |-> FALSE,
     model |-> None,
     mission_context |-> [type |-> "dict", items |-> EmptyDict],
     lessons_db |-> EmptyList]

\* the page before any button is pressed: the sidebar has put run_count 0
\* in the session and shows it; nothing else is on the page
AppInit ==
    [run_count |-> 0,
     metric |-> 0,
     triggers |-> 0,
     at |-> "idle",
     error |-> "none",
     shown |-> EmptyList,
     summary |-> FALSE]

Init ==
    /\ app = AppInit
    /\ pc = "no_agent"
    /\ self = NoAgent
    /\ state = EmptyDict
    /\ results = EmptyList
    /\ now = 0
    /\ hash_seed \in HashSeeds
    /\ env = [use_llm_arg |-> FALSE,
              chat_ollama |-> "not_called",
              context_file |-> "none",
              context_json |-> [type |-> "none", items |-> EmptyList],
              invoke |-> "not_called",
              invoke_calls |-> 0,
              minute_5 |-> -1,
              minute_6 |-> -1]

\* SovereignExecutiveAgent(use_llm): the constructor returns an agent or raises
Construct(use_llm, chat_ollama, context_file) ==
    /\ pc = "no_agent"
    /\ env' = [use_llm_arg |-> use_llm,
               chat_ollama |-> IF use_llm THEN chat_ollama ELSE "not_called",
               context_file |-> context_file.kind,
               context_json |-> IF context_file.kind = "json"
                                THEN context_file.value
                                ELSE [type |-> "none", items |-> EmptyList],
               invoke |-> "not_called",
               invoke_calls |-> 0,
               minute_5 |-> -1,
               minute_6 |-> -1]
    /\ IF InitRaises(context_file)
       THEN /\ pc' = "init_failed"
            /\ self' = self
       ELSE /\ pc' = "ready"
            /\ self' = __init__(use_llm, chat_ollama, context_file)
    /\ UNCHANGED <<state, results, now, hash_seed, app>>

\* a faulty run: a later call goes on with the record of the call before
Run_resumes(incident) ==
    /\ pc \in {"ready", "END", "raised"}
    /\ Len(results) < MaxRuns
    /\ state' = IF state = EmptyDict
                THEN initial_state(incident)
                ELSE [state EXCEPT !["incident"] = incident]
    /\ pc' = EntryPoint
    /\ env' = [env EXCEPT !.invoke = "not_called", !.invoke_calls = 0,
                       !.minute_5 = -1, !.minute_6 = -1]
    /\ UNCHANGED <<self, results, now, hash_seed, app>>

\* agent.run(incident): graph.invoke(initial_state) enters the graph
Run(incident) ==
    /\ pc \in {"ready", "END", "raised"}
    /\ Len(results) < MaxRuns
    /\ state' = initial_state(incident)
    /\ pc' = EntryPoint
    /\ env' = [env EXCEPT !.invoke = "not_called", !.invoke_calls = 0,
                       !.minute_5 = -1, !.minute_6 = -1]
    /\ UNCHANGED <<self, results, now, hash_seed, app>>

\* a node has returned update: the graph merges it and follows the node's
\* edge; at END graph.invoke returns the record
NodeReturns(node, update) ==
    /\ state' = Merge(state, update)
    /\ pc' = Edge(node)
    /\ results' = IF Edge(node) = "END" THEN Append(results, state') ELSE results

Stage1 ==
    /\ pc = "stage_1_edge_detection"
    /\ NodeReturns(pc, stage_1_edge_detection(state))
    /\ UNCHANGED <<self, now, hash_seed, env, app>>

\* a faulty stage 2: a context that is no mapping is replaced by the
\* default and the run goes on
Stage2_falls_back ==
    /\ pc = "stage_2_contextual_analysis"
    /\ NodeReturns(pc, stage_2_contextual_analysis(state,
                           IF self.mission_context.type = "dict"
                           THEN self.mission_context.items
                           ELSE _default_context))
    /\ UNCHANGED <<self, now, hash_seed, env, app>>

\* .get on a context that is no mapping raises; nothing catches it
Stage2 ==
    /\ pc = "stage_2_contextual_analysis"
    /\ IF self.mission_context.type = "dict"
       THEN NodeReturns(pc, stage_2_contextual_analysis(state, self.mission_context.items))
       ELSE /\ pc' = "raised"
            /\ UNCHANGED <<state, results>>
    /\ UNCHANGED <<self, now, hash_seed, env, app>>

Stage3 ==
    /\ pc = "stage_3_causal_evaluation"
    /\ NodeReturns(pc, stage_3_causal_evaluation(state))
    /\ UNCHANGED <<self, now, hash_seed, env, app>>

\* a faulty stage 4: it waits for the model backend whatever use_llm says
Stage4Simulated_waits ==
    /\ pc = "stage_4_strategic_reasoning"
    /\ ~UsesModel(self)
    /\ pc' = "invoke"
    /\ env' = [env EXCEPT !.invoke = "pending", !.invoke_calls = @ + 1]
    /\ UNCHANGED <<self, state, results, now, hash_seed, app>>

\* stage 4 without the model: the static text
Stage4Simulated ==
    /\ pc = "stage_4_strategic_reasoning"
    /\ ~UsesModel(self)
    /\ NodeReturns(pc, stage_4_strategic_reasoning(state, _simulated_reasoning))
    /\ UNCHANGED <<self, now, hash_seed, env, app>>

\* stage 4 with the model: self.model.invoke(prompt) is called and blocks
Stage4Invoke ==
    /\ pc = "stage_4_strategic_reasoning"
    /\ UsesModel(self)
    /\ pc' = "invoke"
    /\ env' = [env EXCEPT !.invoke = "pending", !.invoke_calls = @ + 1]
    /\ UNCHANGED <<self, state, results, now, hash_seed, app>>

\* the model answers: its text is the reasoning
InvokeReturns(content) ==
    /\ pc = "invoke"
    /\ NodeReturns("stage_4_strategic_reasoning",
                   stage_4_strategic_reasoning(state, content))
    /\ env' = [env EXCEPT !.invoke = "returned"]
    /\ UNCHANGED <<self, now, hash_seed, app>>

\* a faulty stage 4: nothing catches the exception of the model call
InvokeRaises_propagates ==
    /\ pc = "invoke"
    /\ pc' = "raised"
    /\ env' = [env EXCEPT !.invoke = "raised"]
    /\ UNCHANGED <<self, state, results, now, hash_seed, app>>

\* a faulty stage 4: a model call that raises is made again
InvokeRaises_retries ==
    /\ pc = "invoke"
    /\ pc' = "stage_4_strategic_reasoning"
    /\ env' = [env EXCEPT !.invoke = "raised"]
    /\ UNCHANGED <<self, state, results, now, hash_seed, app>>

\* the model call raises: except Exception takes the static text
InvokeRaises ==
    /\ pc = "invoke"
    /\ NodeReturns("stage_4_strategic_reasoning",
                   stage_4_strategic_reasoning(state, _simulated_reasoning))
    /\ env' = [env EXCEPT !.invoke = "raised"]
    /\ UNCHANGED <<self, now, hash_seed, app>>

Stage5 ==
    /\ pc = "stage_5_privacy_shield"
    /\ NodeReturns(pc, stage_5_privacy_shield(state, hash_seed, now))
    /\ env' = [env EXCEPT !.minute_5 = Minute(now)]
    /\ UNCHANGED <<self, now, hash_seed, app>>

Stage6 ==
    /\ pc = "stage_6_agentic_execution"
    /\ NodeReturns(pc, stage_6_agentic_execution(state, hash_seed, now))
    /\ env' = [env EXCEPT !.minute_6 = Minute(now)]
    /\ UNCHANGED <<self, now, hash_seed, app>>

Stage7 ==
    /\ pc = "stage_7_human_notification"
    /\ NodeReturns(pc, stage_7_human_notification(state))
    /\ UNCHANGED <<self, now, hash_seed, env, app>>

\* a faulty stage 8: the lesson is put at the head of lessons_db
Stage8_prepends ==
    /\ pc = "stage_8_continuous_learning"
    /\ LET learning_record ==
               record_incident("M&A Travel Disruption",
                               Get(state, "strategic_plan", EmptyDict),
                               "SUCCESS", now)
       IN  /\ self' = [self EXCEPT !.lessons_db = <<learning_record>> \o @]
           /\ NodeReturns(pc, stage_8_continuous_learning(state, learning_record))
    /\ UNCHANGED <<now, hash_seed, env, app>>

\* stage 8: record_incident appends the lesson to the agent's lessons_db
Stage8 ==
    /\ pc = "stage_8_continuous_learning"
    /\ LET learning_record ==
               record_incident("M&A Travel Disruption",
                               Get(state, "strategic_plan", EmptyDict),
                               "SUCCESS", now)
       IN  /\ self' = [self EXCEPT !.lessons_db = Append(@, learning_record)]
           /\ NodeReturns(pc, stage_8_continuous_learning(state, learning_record))
    /\ UNCHANGED <<now, hash_seed, env, app>>

\* time passes
Tick ==
    /\ pc \notin {"no_agent", "init_failed"}
    /\ now < MaxClock
    /\ now' = now + 1
    /\ UNCHANGED <<pc, self, state, results, hash_seed, env, app>>

Next ==
    \/ \E use_llm \in BOOLEAN, chat_ollama \in ChatOllamaOutcomes, context_file \in ContextFiles :
           Construct(use_llm, chat_ollama, context_file)
    \/ \E incident \in Incidents : Run(incident)
    \/ Stage1
    \/ Stage2
    \/ Stage3
    \/ Stage4Simulated
    \/ Stage4Invoke
    \/ \E content \in LlmTexts : InvokeReturns(content)
    \/ InvokeRaises
    \/ Stage5
    \/ Stage6
    \/ Stage7
    \/ Stage8
    \/ Tick

Spec == Init /\ [][Next]_vars

\* the code of a stage, once entered, runs to its return, its raise or its
\* call of the model
StageStep ==
    \/ Stage1
    \/ Stage2
    \/ Stage3
    \/ Stage4Simulated
    \/ Stage4Invoke
    \/ Stage5
    \/ Stage6
    \/ Stage7
    \/ Stage8

\* the interpreter keeps executing the stage it is in; nothing obliges the
\* model backend to answer, nor the caller to call run
FairSpec == Spec /\ WF_vars(StageStep)

\* a caller uses the agent's learning module itself: after the agent's
\* first run it calls record_incident with a label and an outcome of its
\* own, and is done with the agent
DirectRecord(incident_type, outcome) ==
    /\ pc = "END"
    /\ Len(results) = 1
    /\ LET lesson == record_incident(incident_type,
                                     Get(state, "strategic_plan", EmptyDict),
                                     outcome, now)
       IN  self' = [self EXCEPT !.lessons_db = Append(@, lesson)]
    /\ pc' = "exit"
    /\ UNCHANGED <<state, results, now, hash_seed, env, app>>

NextLearning ==
    \/ Next
    \/ \E incident_type \in IncidentTypes, outcome \in Outcomes :
           DirectRecord(incident_type, outcome)

\* the agent's runs together with direct calls of the learning module
LearningSpec == Init /\ [][NextLearning]_vars

----------------------------------------------------------------------------
(* app.py: the page.  Every press of a button reruns the script from its   *)
(* top; a press is taken when the script is not running.                   *)

\* a faulty handler: the press is not counted
AppLaunch_uncounted ==
    /\ app.at \in {"idle", "done", "stopped"}
    /\ app.triggers < MaxTriggers
    /\ app' = [run_count |-> app.run_count,
               metric |-> app.run_count,
               triggers |-> app.triggers + 1,
               at |-> "init",
               error |-> "none",
               shown |-> EmptyList,
               summary |-> FALSE]
    /\ pc' = "no_agent"
    /\ self' = NoAgent
    /\ state' = EmptyDict
    /\ results' = EmptyList
    /\ UNCHANGED <<now, hash_seed, env>>

\* the launch button is pressed: the script reruns, the sidebar shows the
\* run_count of the session, the handler adds 1 to it; the page of the
\* run before is gone and so is its agent
AppLaunch ==
    /\ app.at \in {"idle", "done", "stopped"}
    /\ app.triggers < MaxTriggers
    /\ app' = [run_count |-> app.run_count + 1,
               metric |-> app.run_count,
               triggers |-> app.triggers + 1,
               at |-> "init",
               error |-> "none",
               shown |-> EmptyList,
               summary |-> FALSE]
    /\ pc' = "no_agent"
    /\ self' = NoAgent
    /\ state' = EmptyDict
    /\ results' = EmptyList
    /\ UNCHANGED <<now, hash_seed, env>>

\* SovereignExecutiveAgent(use_llm=use_llm) under the spinner
AppConstruct(use_llm, chat_ollama, context_file) ==
    /\ app.at = "init"
    /\ Construct(use_llm, chat_ollama, context_file)

\* a faulty handler: the error is shown but the script is not stopped
AppInitError_goes_on ==
    /\ app.at = "init"
    /\ pc = "init_failed"
    /\ app' = [app EXCEPT !.at = "notified", !.error = "Error initializing agent"]
    /\ UNCHANGED <<pc, self, state, results, now, hash_seed, env>>

\* except Exception around the constructor: st.error and st.stop()
AppInitError ==
    /\ app.at = "init"
    /\ pc = "init_failed"
    /\ app' = [app EXCEPT !.at = "stopped", !.error = "Error initializing agent"]
    /\ UNCHANGED <<pc, self, state, results, now, hash_seed, env>>

\* the constructor returned: the notification banner and the sleep
AppNotify ==
    /\ app.at = "init"
    /\ pc = "ready"
    /\ app' = [app EXCEPT !.at = "notified"]
    /\ UNCHANGED <<pc, self, state, results, now, hash_seed, env>>

\* result = agent.run(incident_input): the one run of this agent
AppRun(incident) ==
    /\ app.at = "notified"
    /\ pc = "ready"
    /\ Run(incident)

\* except Exception around agent.run: st.error and st.stop()
AppRunError ==
    /\ app.at = "notified"
    /\ pc = "raised"
    /\ app' = [app EXCEPT !.at = "stopped", !.error = "Execution error"]
    /\ UNCHANGED <<pc, self, state, results, now, hash_seed, env>>

\* agent.run returned: progress bar, status line and the empty slots
AppRunReturned ==
    /\ app.at = "notified"
    /\ pc = "END"
    /\ app' = [app EXCEPT !.at = "reveal"]
    /\ UNCHANGED <<pc, self, state, results, now, hash_seed, env>>

\* a faulty reveal loop: it goes through the log from its end
AppReveal_reversed ==
    /\ app.at = "reveal"
    /\ Len(app.shown) < Len(results[1].stage_logs)
    /\ app' = [app EXCEPT
                   !.shown = Append(@, results[1].stage_logs[
                                           Len(results[1].stage_logs) - Len(@)].stage)]
    /\ UNCHANGED <<pc, self, state, results, now, hash_seed, env>>

\* one turn of the reveal loop: the card of the next log entry is put in
\* its slot, then the sleep
AppReveal ==
    /\ app.at = "reveal"
    /\ Len(app.shown) < Len(results[1].stage_logs)
    /\ app' = [app EXCEPT
                   !.shown = Append(@, results[1].stage_logs[Len(@) + 1].stage)]
    /\ UNCHANGED <<pc, self, state, results, now, hash_seed, env>>

\* the loop is over: the final summary is rendered and the script ends
AppSummary ==
    /\ app.at = "reveal"
    /\ Len(app.shown) = Len(results[1].stage_logs)
    /\ app' = [app EXCEPT !.at = "done", !.summary = TRUE]
    /\ UNCHANGED <<pc, self, state, results, now, hash_seed, env>>

\* the Reset Demo button: st.session_state.clear() and st.rerun(); the
\* rerun's sidebar finds no run_count and puts 0
AppReset ==
    /\ app.at \in {"idle", "done", "stopped"}
    /\ app' = AppInit
    /\ pc' = "no_agent"
    /\ self' = NoAgent
    /\ state' = EmptyDict
    /\ results' = EmptyList
    /\ UNCHANGED <<now, hash_seed, env>>

NextApp ==
    \/ AppLaunch
    \/ \E use_llm \in BOOLEAN, chat_ollama \in ChatOllamaOutcomes, context_file \in ContextFiles :
           AppConstruct(use_llm, chat_ollama, context_file)
    \/ AppInitError
    \/ AppNotify
    \/ \E incident \in Incidents : AppRun(incident)
    \/ StageStep
    \/ \E content \in LlmTexts : InvokeReturns(content)
    \/ InvokeRaises
    \/ AppRunError
    \/ AppRunReturned
    \/ AppReveal
    \/ AppSummary
    \/ AppReset
    \/ Tick

\* the page and the agents its script builds
AppSpec == Init /\ [][NextApp]_vars

\* the record a run returns when stage 4 takes the static text and the
\* clock reads t5, t6, t8 in stages 5, 6 and 8
WithoutModel(incident, mission_context, seed, t5, t6, t8) ==
    LET s0 == initial_state(incident)
        s1 == Merge(s0, stage_1_edge_detection(s0))
        s2 == Merge(s1, stage_2_contextual_analysis(s1, mission_context))
        s3 == Merge(s2, stage_3_causal_evaluation(s2))
        s4 == Merge(s3, stage_4_strategic_reasoning(s3, _simulated_reasoning))
        s5 == Merge(s4, stage_5_privacy_shield(s4, seed, t5))
        s6 == Merge(s5, stage_6_agentic_execution(s5, seed, t6))
        s7 == Merge(s6, stage_7_human_notification(s6))
        lesson == record_incident("M&A Travel Disruption",
                                  Get(s7, "strategic_plan", EmptyDict),
                                  "SUCCESS", t8)
    IN  Merge(s7, stage_8_continuous_learning(s7, lesson))

----------------------------------------------------------------------------
(* Properties *)

\* the record of the run under way or last started, once it has k log entries
HasLogs(k) == "stage_logs" \in DOMAIN state /\ Len(state["stage_logs"]) >= k

\* an agent object exists
Constructed == pc \notin {"no_agent", "init_failed"}

\* C1: every record a completed run returns has exactly eight log entries,
\* and the i-th of them carries stage number i, whatever the incident text.
C1_EightStageLogs ==
    \A i \in 1..Len(results) :
        /\ Len(results[i].stage_logs) = 8
        /\ \A k \in 1..8 : results[i].stage_logs[k].stage = k

C1_Witness ==
    /\ pc = "END"
    /\ \E i \in 1..Len(results) : results[i].incident = "X"
    /\ \E j \in 1..Len(results) : results[j].incident # "X"

\* C2: every returned record has exactly three bookings, tagged FLIGHT,
\* TRAIN, GROUND_TRANSPORT in that order.
C2_ThreeBookings ==
    \A i \in 1..Len(results) :
        /\ Len(results[i].bookings) = 3
        /\ results[i].bookings[1].type = "FLIGHT"
        /\ results[i].bookings[2].type = "TRAIN"
        /\ results[i].bookings[3].type = "GROUND_TRANSPORT"

C2_Witness ==
    /\ Len(results) = MaxRuns
    /\ \A i \in 1..Len(results) : results[i].bookings[3].details.status = "DISPATCHED"

\* C3: every returned record has exactly three privacy actions, with the
\* identifiers PII_REDACTION, MISSION_SHIELD, TOKEN_GENERATION in that order.
C3_ThreePrivacyActions ==
    \A i \in 1..Len(results) :
        /\ Len(results[i].privacy_actions) = 3
        /\ results[i].privacy_actions[1].action = "PII_REDACTION"
        /\ results[i].privacy_actions[2].action = "MISSION_SHIELD"
        /\ results[i].privacy_actions[3].action = "TOKEN_GENERATION"

C3_Witness ==
    \E i \in 1..Len(results) :
        /\ results[i].privacy_actions[3].status = "ACTIVE"
        /\ results[i].privacy_actions[1].status = "PROTECTED"

\* C4: once stage 7 has run, final_solution.bookings_secured is the length
\* of the bookings list stage 7 saw, which is 3, and status is
\* RECOVERY_COMPLETE; so it is in every returned record.
C4_FinalSolution ==
    /\ HasLogs(7) =>
           /\ state["final_solution"].bookings_secured = Len(state["bookings"])
           /\ state["final_solution"].bookings_secured = 3
           /\ state["final_solution"].status = "RECOVERY_COMPLETE"
    /\ \A i \in 1..Len(results) :
           /\ results[i].final_solution.bookings_secured = 3
           /\ results[i].final_solution.status = "RECOVERY_COMPLETE"

C4_Witness ==
    /\ pc = "stage_8_continuous_learning"
    /\ state["incident"] = "X"
    /\ state["final_solution"].bookings_secured = 3

\* C5: an agent constructed with use_llm false holds no model, never calls
\* the model, and stage 4's narrative (strategic_plan.reasoning_trace and the
\* stage-4 log's llm_reasoning) is the static text, in every run.
C5_ModelDisabled ==
    (Constructed /\ ~env.use_llm_arg) =>
        /\ self.model = None
        /\ pc # "invoke"
        /\ env.invoke = "not_called"
        /\ HasLogs(4) =>
               /\ state["strategic_plan"].reasoning_trace = _simulated_reasoning
               /\ state["stage_logs"][4].llm_reasoning = _simulated_reasoning
        /\ \A i \in 1..Len(results) :
               /\ results[i].strategic_plan.reasoning_trace = _simulated_reasoning
               /\ results[i].stage_logs[4].llm_reasoning = _simulated_reasoning

C5_Witness ==
    /\ ~env.use_llm_arg
    /\ pc = "stage_5_privacy_shield"
    /\ state["strategic_plan"].reasoning_trace = _simulated_reasoning

\* C6: when the model call of stage 4 raises, stage 4 still completes with
\* the static text as its narrative, the run goes on through stages 5 to 8
\* without raising, and the record it returns is the record a run without
\* the model returns for the same incident, context and clock readings.
C6_InvokeFailureSwallowed ==
    env.invoke = "raised" =>
        /\ pc \in {"stage_5_privacy_shield", "stage_6_agentic_execution",
                   "stage_7_human_notification", "stage_8_continuous_learning", "END"}
        /\ state["strategic_plan"].reasoning_trace = _simulated_reasoning
        /\ state["stage_logs"][4].llm_reasoning = _simulated_reasoning
        /\ pc = "END" =>
               /\ Len(state["stage_logs"]) = 8
               /\ results[Len(results)] = state
               /\ \E t5 \in 0..now : \E t6 \in t5..now : \E t8 \in t6..now :
                      state = WithoutModel(state["incident"], self.mission_context.items,
                                           hash_seed, t5, t6, t8)

C6_Witness ==
    /\ env.invoke = "raised"
    /\ pc = "END"
    /\ self.use_llm

\* C7 as claimed: whenever the model was requested and creating the backend
\* raised, construction succeeds, in non-model mode.
C7_Original ==
    (env.use_llm_arg /\ env.chat_ollama = "raised") =>
        /\ Constructed
        /\ ~self.use_llm
        /\ self.model = None

\* C7, amended: when the model was requested and creating the backend
\* raised, that failure is caught: construction fails only if reading the
\* context file raises, and otherwise yields an agent in non-model mode
\* (use_llm false, no model held) whose runs never call the model and use
\* the static narrative in stage 4.
C7_BackendFailureCaught ==
    (env.use_llm_arg /\ env.chat_ollama = "raised") =>
        IF env.context_file = "unreadable"
        THEN pc = "init_failed"
        ELSE /\ Constructed
             /\ ~self.use_llm
             /\ self.model = None
             /\ pc # "invoke"
             /\ env.invoke = "not_called"
             /\ HasLogs(4) =>
                    /\ state["strategic_plan"].reasoning_trace = _simulated_reasoning
                    /\ state["stage_logs"][4].llm_reasoning = _simulated_reasoning
             /\ \A i \in 1..Len(results) :
                    /\ results[i].strategic_plan.reasoning_trace = _simulated_reasoning
                    /\ results[i].stage_logs[4].llm_reasoning = _simulated_reasoning

C7_Witness ==
    /\ env.use_llm_arg
    /\ env.chat_ollama = "raised"
    /\ Len(results) >= 1
    /\ results[1].strategic_plan.reasoning_trace = _simulated_reasoning

\* C8: if context.json was absent when the agent was constructed, the
\* context stage 2 produces is the fixed default: mission "Operation
\* Sakura", objective "M&A Signing", with the fixed other fields.
C8_DefaultContext ==
    LET fixed == [mission |-> "Operation Sakura",
                  objective |-> "M&A Signing",
                  classification |-> "SOVEREIGN",
                  deadline |-> "09:00 AM Tokyo Time",
                  negotiation_history |-> "6 months of preparation",
                  cultural_factor |-> "Physical presence MANDATORY for Japanese business protocol"]
    IN  env.context_file = "absent" =>
            /\ HasLogs(2) => state["context"] = fixed
            /\ \A i \in 1..Len(results) : results[i].context = fixed

C8_Witness ==
    /\ env.context_file = "absent"
    /\ pc = "stage_3_causal_evaluation"
    /\ state["context"].mission = "Operation Sakura"

\* the TOKEN_GENERATION tokens of the returned records
Tokens == {results[i].privacy_actions[3].token : i \in 1..Len(results)}

\* C9: the PII_REDACTION transformed value (hash_pii of the same text) is
\* the same in all returned records, whatever the clock read, while the
\* TOKEN_GENERATION tokens follow the clock: there are at most as many
\* different tokens as minutes the clock has been in.
C9_HashStableTokenTimed ==
    /\ \A i, j \in 1..Len(results) :
           results[i].privacy_actions[1].transformed
               = results[j].privacy_actions[1].transformed
    /\ Cardinality(Tokens) <= Minute(now) + 1

\* two runs of one process whose tokens differ and whose digests agree
C9_Witness ==
    \E i, j \in 1..Len(results) :
        /\ results[i].privacy_actions[3].token # results[j].privacy_actions[3].token
        /\ results[i].privacy_actions[1].transformed
               = results[j].privacy_actions[1].transformed

\* C10: every stage that returns leaves stage_logs as it was with exactly
\* one entry appended, and every field the record had is still there.
C10_AppendOnly ==
    [][(/\ pc \in Nodes \cup {"invoke"}
        /\ pc' \in Nodes \cup {"END"}
        /\ pc' # pc)
       => /\ Len(state'["stage_logs"]) = Len(state["stage_logs"]) + 1
          /\ SubSeq(state'["stage_logs"], 1, Len(state["stage_logs"])) = state["stage_logs"]
          /\ DOMAIN state \subseteq DOMAIN state'
          /\ AgentState \subseteq DOMAIN state]_vars

C10_Witness ==
    /\ pc = "stage_4_strategic_reasoning"
    /\ Len(state["stage_logs"]) = 3
    /\ DOMAIN state = AgentState

\* the stages that have returned when control is at position p of a run
StagesDone(p) ==
    CASE p = "stage_1_edge_detection" -> 0
      [] p = "stage_2_contextual_analysis" -> 1
      [] p = "stage_3_causal_evaluation" -> 2
      [] p = "stage_4_strategic_reasoning" -> 3
      [] p = "invoke" -> 3
      [] p = "stage_5_privacy_shield" -> 4
      [] p = "stage_6_agentic_execution" -> 5
      [] p = "stage_7_human_notification" -> 6
      [] p = "stage_8_continuous_learning" -> 7
      [] p = "END" -> 8

\* C11: the stages run in one fixed order without branching: a run enters
\* at stage 1; whenever control is at stage k, exactly the stages 1..k-1
\* have returned, each once and in order; a stage that returns hands over
\* to the next stage only (stage 2 may raise instead); and the run is at
\* END exactly when stage 8 has returned.
C11_LinearOrder ==
    /\ [](pc \in Nodes \cup {"invoke", "END"} =>
            /\ Len(state["stage_logs"]) = StagesDone(pc)
            /\ \A i \in 1..Len(state["stage_logs"]) : state["stage_logs"][i].stage = i)
    /\ [][/\ ((pc \notin Nodes \cup {"invoke"} /\ pc' \in Nodes \cup {"invoke"})
               => (pc' = "stage_1_edge_detection"))
          /\ ((pc \in Nodes \cup {"invoke"} /\ pc' # pc)
               => (\/ pc = "stage_4_strategic_reasoning" /\ pc' = "invoke"
                   \/ pc = "stage_2_contextual_analysis" /\ pc' = "raised"
                   \/ (/\ pc' \in Nodes \cup {"END"}
                       /\ StagesDone(pc') = StagesDone(pc) + 1)))]_vars

\* the second run of an agent is between stage 7 and stage 8
C11_Witness ==
    /\ pc = "stage_8_continuous_learning"
    /\ Len(results) = 1
    /\ Len(state["stage_logs"]) = 7

\* C12: a stage that raises ends the run by the exception: with a context
\* that is no mapping stage 2 raises, so control never passes stage 2 and
\* no record, partial or whole, is ever returned; the raising step leaves
\* the record and the returned records as they were, and after it the only
\* way on is a new call of run, which starts at stage 1 with a fresh record.
C12_StageRaisePropagates ==
    /\ []((Constructed /\ self.mission_context.type # "dict") =>
            /\ results = EmptyList
            /\ pc \in {"ready", "stage_1_edge_detection",
                        "stage_2_contextual_analysis", "raised"})
    /\ [](pc = "raised" =>
            /\ Len(state["stage_logs"]) = 1
            /\ state["context"] = EmptyDict)
    /\ [][/\ ((pc' = "raised" /\ pc # "raised")
               => (results' = results /\ state' = state))
          /\ ((pc = "raised" /\ pc' # "raised")
               => (/\ pc' = "stage_1_edge_detection"
                   /\ state'["stage_logs"] = EmptyList
                   /\ results' = results))]_vars

\* a second run of the same agent has raised in stage 2 as the first did
C12_Witness ==
    /\ pc = "raised"
    /\ self.mission_context.type = "list"
    /\ Len(state["stage_logs"]) = 1
    /\ state["incident"] = "X"
    /\ results = EmptyList

\* the model is disabled in the agent
ModelDisabled == Constructed /\ ~UsesModel(self)

\* C13 as stated: with the model disabled a run that has terminated has
\* executed all eight stages.
C13_Original ==
    (ModelDisabled /\ pc \in {"END", "raised"}) => Len(state["stage_logs"]) = 8

\* C13: every run eventually terminates, at END after all eight stages or
\* by the exception of stage 2 on a context that is no mapping, or is at
\* the model call of stage 4; a run is at the model call only with the
\* model enabled and the call pending, so with the model disabled every
\* run terminates; the model call is left only when it returns or raises,
\* and then stage 4 has returned and the run goes on to END.
C13_Terminates ==
    /\ (pc \in Nodes) ~> (pc \in {"END", "raised", "invoke"})
    /\ [](pc = "invoke" => UsesModel(self) /\ env.invoke = "pending")
    /\ [](pc = "END" => Len(state["stage_logs"]) = 8)
    /\ [](pc = "raised" =>
            /\ self.mission_context.type # "dict"
            /\ Len(state["stage_logs"]) = 1)
    /\ [][(pc = "invoke" /\ pc' # "invoke")
              => (/\ env'.invoke \in {"returned", "raised"}
                  /\ pc' = "stage_5_privacy_shield")]_vars

\* a run with the model disabled has terminated by the exception of stage 2
C13_Witness ==
    /\ ModelDisabled
    /\ pc = "raised"
    /\ Len(state["stage_logs"]) = 1

\* C14: every call of run, the first or a later one on the same agent,
\* enters stage 1 with a record whose stage_logs, privacy_actions and
\* bookings are empty lists, whose mappings are empty and whose timestamp
\* is the empty text; and every returned record, the n-th as the first,
\* has exactly eight log entries and three bookings.
C14_FreshRecord ==
    /\ pc = "stage_1_edge_detection" =>
           /\ DOMAIN state = AgentState
           /\ state["stage_logs"] = <<>>
           /\ state["privacy_actions"] = <<>>
           /\ state["bookings"] = <<>>
           /\ state["context"] = <<>>
           /\ state["causal_analysis"] = <<>>
           /\ state["strategic_plan"] = <<>>
           /\ state["final_solution"] = <<>>
           /\ state["learning_record"] = <<>>
           /\ state["timestamp"] = ""
    /\ \A n \in 1..Len(results) :
           /\ Len(results[n].stage_logs) = 8
           /\ Len(results[n].bookings) = 3

\* the agent has returned two records and a further run would be its third
C14_Witness ==
    /\ Len(results) = 2
    /\ pc = "END"
    /\ Len(results[2].stage_logs) = 8
    /\ Len(results[2].bookings) = 3
    /\ Len(self.lessons_db) = 2

\* C15 as stated: when a run executes, nothing an earlier run wrote is
\* still there, the agent's learning list included.
C15_Original ==
    pc \in Nodes \cup {"invoke"} => self.lessons_db = EmptyList

\* C15: of what a run writes, only the agent's learning list is still
\* there when a later run executes: a call of run replaces the record by
\* one that holds the new incident and empty values, and no step after
\* construction changes the agent's use_llm, model or mission_context.
C15_OnlyLearningListSurvives ==
    [][/\ ((pc \in {"ready", "END", "raised"} /\ pc' \in Nodes)
            => (/\ state'["timestamp"] = ""
                /\ \A key \in AgentState \ {"incident", "timestamp"} :
                       state'[key] = <<>>))
       /\ (Constructed
            => (/\ self'.use_llm = self.use_llm
                /\ self'.model = self.model
                /\ self'.mission_context = self.mission_context
                /\ (\/ self'.lessons_db = self.lessons_db
                    \/ pc = "stage_8_continuous_learning")))]_vars

\* a second run is executing on an agent whose learning list holds the
\* lesson of the first
C15_Witness ==
    /\ pc = "stage_3_causal_evaluation"
    /\ Len(results) = 1
    /\ self.lessons_db = <<results[1].learning_record>>
    /\ Len(state["stage_logs"]) = 2

\* C16: in every run the model backend has been called at most once; a
\* call has been made only by an agent with the model enabled and present,
\* and only from stage 4, that is after stages 1 to 3 have returned; while
\* the call is pending exactly three stages have logged; an agent without
\* the model has made no call.
C16_AtMostOneInvoke ==
    /\ env.invoke_calls <= 1
    /\ (env.invoke_calls = 0) = (env.invoke = "not_called")
    /\ env.invoke_calls >= 1 =>
           /\ self.use_llm
           /\ self.model # None
           /\ pc \notin {"stage_1_edge_detection", "stage_2_contextual_analysis",
                          "stage_3_causal_evaluation", "stage_4_strategic_reasoning"}
           /\ HasLogs(3)
    /\ pc = "invoke" => Len(state["stage_logs"]) = 3

\* a run whose model call raised has gone on to its end with that one call
C16_Witness ==
    /\ pc = "END"
    /\ env.invoke = "raised"
    /\ env.invoke_calls = 1
    /\ Len(results) = 2

\* C17: the agent's learning list holds one record per completed run, in
\* run order: its i-th record is the learning_record of the i-th returned
\* record, which is also what stage 8 logged; a run that has not passed
\* stage 8 has added nothing.
C17_LearningList ==
    Constructed =>
        /\ Len(self.lessons_db) = Len(results)
        /\ \A i \in 1..Len(results) :
               /\ self.lessons_db[i] = results[i].learning_record
               /\ self.lessons_db[i].incident_type = "M&A Travel Disruption"
               /\ results[i].stage_logs[8].learning_record = self.lessons_db[i]

\* two completed runs whose lessons differ, the older one first
C17_Witness ==
    /\ Len(results) = 2
    /\ self.lessons_db = <<results[1].learning_record, results[2].learning_record>>
    /\ results[1].learning_record # results[2].learning_record

\* the labels of the model that contain "M&A", or "merger" in any case
KeywordLabels ==
    {"M&A Travel Disruption", "M&A", "Corporate MERGER review", "merger talks"}

\* C18: the lessons of a record follow one keyword test on its label: a
\* label that contains "M&A", or "merger" in any case, gives the four
\* fixed fields with osaka_bypass_success true exactly when the outcome
\* is "SUCCESS"; any other label gives the single field general_learning.
\* The records of the pipeline carry the label "M&A Travel Disruption" and
\* the outcome "SUCCESS", so each has the four fields with
\* osaka_bypass_success true, whatever the incident.
C18_KeywordLessons ==
    /\ \A i \in 1..Len(self.lessons_db) :
           LET lesson == self.lessons_db[i]
           IN  /\ lesson.incident_type \in KeywordLabels =>
                      lesson.learned_parameters
                          = [priority_override |-> "TIME > COMFORT",
                             intermodal_viable |-> TRUE,
                             osaka_bypass_success |-> (lesson.outcome = "SUCCESS"),
                             privacy_protocol |-> "SOVEREIGN_VALIDATED"]
               /\ lesson.incident_type \notin KeywordLabels =>
                      lesson.learned_parameters
                          = [general_learning |-> "Protocol executed successfully"]
    /\ \A n \in 1..Len(results) :
           /\ results[n].learning_record.incident_type = "M&A Travel Disruption"
           /\ results[n].learning_record.outcome = "SUCCESS"
           /\ DOMAIN results[n].learning_record.learned_parameters
                  = {"priority_override", "intermodal_viable",
                     "osaka_bypass_success", "privacy_protocol"}
           /\ results[n].learning_record.learned_parameters.osaka_bypass_success

\* after a run on the incident "X", a direct call with a label that holds
\* "MERGER" in capitals and a failed outcome has given the four fields
\* with osaka_bypass_success false
C18_Witness ==
    /\ pc = "exit"
    /\ results[1].incident = "X"
    /\ results[1].learning_record.learned_parameters.osaka_bypass_success
    /\ self.lessons_db[2].incident_type = "Corporate MERGER review"
    /\ self.lessons_db[2].outcome = "FAILURE"
    /\ ~self.lessons_db[2].learned_parameters.osaka_bypass_success

\* the field of the record a stage is there to write
Designated(p) ==
    CASE p = "stage_1_edge_detection" -> "timestamp"
      [] p = "stage_2_contextual_analysis" -> "context"
      [] p = "stage_3_causal_evaluation" -> "causal_analysis"
      [] p = "stage_4_strategic_reasoning" -> "strategic_plan"
      [] p = "invoke" -> "strategic_plan"
      [] p = "stage_5_privacy_shield" -> "privacy_actions"
      [] p = "stage_6_agentic_execution" -> "bookings"
      [] p = "stage_7_human_notification" -> "final_solution"
      [] p = "stage_8_continuous_learning" -> "learning_record"

\* C19: a step taken while a run is in a stage changes, of the record, at
\* most stage_logs and the field designated to that stage; every other
\* field, the incident among them, is left as it was, so that each field
\* holds in the returned record what its stage wrote and the incident is
\* the caller's; the returned record is the record stage 8 left.
C19_StageFrame ==
    [][/\ (pc \in Nodes \cup {"invoke"}
            => (/\ DOMAIN state' = DOMAIN state
                /\ \A key \in DOMAIN state \ {"stage_logs", Designated(pc)} :
                       state'[key] = state[key]))
       /\ ((pc = "stage_8_continuous_learning" /\ pc' = "END")
            => (/\ results' = Append(results, state')
                /\ state'["incident"] = state["incident"]))]_vars

\* stage 6 has just written the bookings of a run that took the model's text
C19_Witness ==
    /\ pc = "stage_7_human_notification"
    /\ state["incident"] = "CEO Flight to Tokyo cancelled at 23:00"
    /\ Len(state["bookings"]) = 3
    /\ state["final_solution"] = EmptyDict
    /\ state["strategic_plan"].reasoning_trace \in LlmTexts

\* C20: when context.json held a mapping at construction, the context of
\* stage 2 has the file's mission_name, objective and classification where
\* the file has those keys and "Operation Sakura", "M&A Signing" and
\* "SOVEREIGN" where it has not, and its deadline, negotiation_history and
\* cultural_factor are the fixed texts, whatever the file holds.
C20_ContextFromFile ==
    (env.context_file = "json" /\ env.context_json.type = "dict") =>
        LET file == env.context_json.items
            expected ==
                [mission |-> IF "mission_name" \in DOMAIN file
                             THEN file.mission_name ELSE "Operation Sakura",
                 objective |-> IF "objective" \in DOMAIN file
                               THEN file.objective ELSE "M&A Signing",
                 classification |-> IF "classification" \in DOMAIN file
                                    THEN file.classification ELSE "SOVEREIGN",
                 deadline |-> "09:00 AM Tokyo Time",
                 negotiation_history |-> "6 months of preparation",
                 cultural_factor |->
                     "Physical presence MANDATORY for Japanese business protocol"]
        IN  /\ HasLogs(2) => state["context"] = expected
            /\ \A n \in 1..Len(results) : results[n].context = expected

\* the file gave a mission, an objective, a classification and a deadline:
\* the first three are in the returned context, the deadline is not
C20_Witness ==
    /\ env.context_file = "json"
    /\ env.context_json.type = "dict"
    /\ "deadline" \in DOMAIN env.context_json.items
    /\ env.context_json.items.deadline = "10:00 AM Osaka Time"
    /\ Len(results) = 1
    /\ results[1].context.mission = "Operation Kiku"
    /\ results[1].context.objective = "JV Signing"
    /\ results[1].context.classification = "SECRET"
    /\ results[1].context.deadline = "09:00 AM Tokyo Time"

\* C21: a context file that is there but cannot be read or parsed makes
\* the constructor raise, and only that does: no agent object is left, no
\* record exists and none was returned; the page then shows the
\* initialization error and stops, with no stage entry and no summary on
\* it, and it shows that error in no other case.
C21_InitErrorHalts ==
    /\ (env.context_file = "unreadable" /\ pc # "no_agent") => pc = "init_failed"
    /\ pc = "init_failed" =>
           /\ env.context_file = "unreadable"
           /\ self = NoAgent
           /\ state = EmptyDict
           /\ results = EmptyList
           /\ app.at \in {"init", "stopped"}
           /\ app.shown = EmptyList
           /\ ~app.summary
           /\ app.at = "stopped" => app.error = "Error initializing agent"
    /\ app.error = "Error initializing agent" =>
           /\ pc = "init_failed"
           /\ app.at = "stopped"

\* the second launch of a session has stopped on the initialization error
C21_Witness ==
    /\ pc = "init_failed"
    /\ env.context_file = "unreadable"
    /\ app.at = "stopped"
    /\ app.error = "Error initializing agent"
    /\ app.run_count = 2
    /\ app.shown = EmptyList

\* C22: the page shows stage entries only of a run that has returned its
\* record; the entries shown are the first entries of that record's log,
\* in the log's order, and each step of the loop adds the next one; the
\* final summary is on the page only when all eight entries are; when the
\* run has raised, the page shows no entry and no summary, the handler's
\* next step shows the execution error and stops, and that error is shown
\* in no other case.
C22_RevealInOrder ==
    /\ [](app.shown # EmptyList =>
            (/\ pc = "END"
             /\ Len(results) = 1
             /\ Len(app.shown) <= Len(results[1].stage_logs)
             /\ \A i \in 1..Len(app.shown) :
                    (app.shown[i] = i /\ results[1].stage_logs[i].stage = i)))
    /\ [](app.summary =>
            (/\ app.at = "done"
             /\ Len(app.shown) = Len(results[1].stage_logs)
             /\ Len(app.shown) = 8))
    /\ [](pc = "raised" => (app.shown = EmptyList /\ ~app.summary))
    /\ [](app.error = "Execution error" =>
            (pc = "raised" /\ app.at = "stopped"))
    /\ [][/\ ((app'.shown # app.shown /\ app'.shown # EmptyList)
               => (/\ app.at = "reveal"
                   /\ Len(app'.shown) = Len(app.shown) + 1
                   /\ SubSeq(app'.shown, 1, Len(app.shown)) = app.shown))
          /\ ((pc = "raised" /\ app.at = "notified" /\ app' # app)
               => (app'.error = "Execution error" /\ app'.at = "stopped"))]_vars

\* the loop has shown the first three entries of the record and not yet
\* the summary
C22_Witness ==
    /\ app.at = "reveal"
    /\ app.shown = <<1, 2, 3>>
    /\ ~app.summary
    /\ Len(results[1].stage_logs) = 8

\* C23: run_count is 0 on the fresh page and always equals the number of
\* presses of the launch button since the last reset; it changes only by
\* a press, which adds exactly 1 before the constructor is called, or by
\* the reset, which leaves 0; so a press whose constructor or run fails
\* has been counted when the error is shown.
C23_RunCounter ==
    /\ [](app.run_count = app.triggers)
    /\ []((app.at = "idle" /\ app.triggers = 0) => app.run_count = 0)
    /\ [](app.at # "idle" => app.run_count >= 1)
    /\ [][app'.run_count # app.run_count
             => (\/ (/\ app'.run_count = app.run_count + 1
                     /\ app'.triggers = app.triggers + 1
                     /\ app'.at = "init"
                     /\ pc' = "no_agent")
                 \/ (/\ app' = AppInit
                     /\ app.at \in {"idle", "done", "stopped"}))]_vars

\* two presses since the reset, the second stopped by the exception of
\* its run: both are counted, and the sidebar still shows 1
C23_Witness ==
    /\ app.run_count = 2
    /\ app.triggers = 2
    /\ app.metric = 1
    /\ app.error = "Execution error"
    /\ app.at = "stopped"

\* C24: once stage 6 has returned, the flight booking and the train
\* booking carry the same payment token_id, a token of stage 6's own call
\* of create_anonymous_token, and that token equals the TOKEN_GENERATION
\* token of stage 5 exactly when the clock was in the same minute in both
\* stages; the returned records keep both.
C24_BookingTokens ==
    /\ HasLogs(6) =>
           LET flight_token == state["bookings"][1].details.payment.token_id
               train_token == state["bookings"][2].details.payment.token_id
               stage_5_token == state["privacy_actions"][3].token
           IN  /\ flight_token = train_token
               /\ (flight_token = stage_5_token) = (env.minute_5 = env.minute_6)
               /\ env.minute_5 <= env.minute_6
    /\ \A n \in 1..Len(results) :
           results[n].bookings[1].details.payment.token_id
               = results[n].bookings[2].details.payment.token_id

\* a run in which the minute changed between stage 5 and stage 6: the
\* bookings' token is not the token stage 5 recorded
C24_Witness ==
    /\ pc = "END"
    /\ env.minute_5 # env.minute_6
    /\ state["bookings"][1].details.payment.token_id
           = state["bookings"][2].details.payment.token_id
    /\ state["bookings"][1].details.payment.token_id
           # state["privacy_actions"][3].token

\* a record without the two places that echo the incident text: the
\* incident field and the incident line of the stage-1 log entry
WithoutEcho(record) ==
    [record EXCEPT !["incident"] = "",
                   !["stage_logs"][1].actions[4] = ""]

\* C25: the record of a run with the model disabled is the record of the
\* pipeline for some clock readings in stages 5, 6 and 8, and for every
\* other incident text the pipeline with the same context, seed and clock
\* readings gives a record that differs from it in nothing but the
\* incident field and the incident line of the stage-1 log entry, where
\* each record has its own text.
C25_IncidentOnlyEchoed ==
    (pc = "END" /\ ~UsesModel(self)) =>
        \E t5, t6, t8 \in 0..MaxClock :
            /\ state = WithoutModel(state["incident"], self.mission_context.items,
                                    hash_seed, t5, t6, t8)
            /\ \A other \in Incidents :
                   LET twin == WithoutModel(other, self.mission_context.items,
                                            hash_seed, t5, t6, t8)
                   IN  /\ WithoutEcho(twin) = WithoutEcho(state)
                       /\ twin["incident"] = other
                       /\ twin["stage_logs"][1].actions[4] = "INCIDENT: " \o other
                       /\ (other # state["incident"]) => (twin # state)

\* a run without the model on the incident "X" has returned its record
C25_Witness ==
    /\ pc = "END"
    /\ ~UsesModel(self)
    /\ state["incident"] = "X"
    /\ state["stage_logs"][1].actions[4] = "INCIDENT: X"
    /\ Len(results) = 2
    /\ results[1].incident # "X"

(* tools.py: PrivacyShield.redact_request called directly on a caller's request *)

\* the requests a caller passes: each of the four keys is present or absent
Requests ==
    {p @@ m @@ o @@ d :
        p \in {EmptyDict, [passenger |-> "CEO Global Tech"], [passenger |-> "J. Doe"]},
        m \in {EmptyDict, [mission |-> "Operation Sakura"], [mission |-> "Operation Kiku"]},
        o \in {EmptyDict, [origin |-> "CDG"]},
        d \in {EmptyDict, [destination |-> "KIX"]}}

\* state holds the caller's request, results the dicts the shield returned
ShieldInit ==
    /\ app = AppInit
    /\ pc = "shield"
    /\ self = NoAgent
    /\ state \in Requests
    /\ results = EmptyList
    /\ now = 0
    /\ hash_seed \in HashSeeds
    /\ env = [use_llm_arg |-> FALSE,
              chat_ollama |-> "not_called",
              context_file |-> "none",
              context_json |-> [type |-> "none", items |-> EmptyList],
              invoke |-> "not_called",
              invoke_calls |-> 0,
              minute_5 |-> -1,
              minute_6 |-> -1]

\* one call of redact_request: it reads the request and returns a new dict
ShieldRedact ==
    /\ pc = "shield"
    /\ Len(results) < MaxRuns
    /\ results' = Append(results, redact_request(state, hash_seed, now))
    /\ UNCHANGED <<pc, self, state, now, hash_seed, env, app>>

NextShield ==
    \/ ShieldRedact
    \/ Tick

ShieldSpec == ShieldInit /\ [][NextShield]_vars

FixedFields == {"request_id", "passenger_type", "identity_status", "pii_redaction", "timestamp"}

====
